---- MODULE Spec2Model ----
(***************************************************************************)
(* The chapter download orchestrator of the Quran audio scraper            *)
(* (src/downloader.py, QuranAudioDownloader) with the fetch worker and     *)
(* the resume-state store it uses (src/utils.py).                          *)
(*                                                                         *)
(* One run of download_surah_enhanced_async is modelled: the call          *)
(* (catalog lookup, resume-state load, planning of total_files), the       *)
(* per-verse/per-word loops, one step per word that is already on disk     *)
(* and one step per HTTP GET, and the final clean-up of the state file.    *)
(* The remote host answers every GET nondeterministically.                 *)
(*                                                                         *)
(* Spec is that run on every request of the model.  The other              *)
(* specifications put one more thing around or into it: SpecObserver a     *)
(* progress callback that may raise, SpecFaults a state file that can be   *)
(* unparsable and saves that can fail, SpecFlight the GET in two steps,    *)
(* SpecTwo a second invocation on the same object, SpecConstruct the       *)
(* constructor and the reference data file, SpecStore the state files of   *)
(* several chapters in one directory, SpecFair the condition that every    *)
(* request returns, SpecResume a run that is stopped and taken up by a     *)
(* new one, SpecAgain a second run on the same object after the first has  *)
(* returned, SpecEmptyBody a remote that may send 200 with an empty body.  *)
(***************************************************************************)
EXTENDS Integers, Sequences, FiniteSets, TLC

(* Python's None for an integer argument; no verse or word id is negative. *)
None == -1

(* A state file whose content json.load cannot parse. *)
Corrupt == <<None>>

(* Python truthiness of an int-or-None value: `if start_verse and ...`. *)
Truthy(x) == x # None /\ x # 0

Max(a, b) == IF a >= b THEN a ELSE b

Min(a, b) == IF a <= b THEN a ELSE b

(***************************************************************************)
(* Bounds of the model.  The catalog (quran_data.json) is reference data   *)
(* outside the code: two chapters are taken, a long one whose verses hold  *)
(* more words than the consecutive-failure threshold, and a short one with *)
(* an interior verse.                                                      *)
(***************************************************************************)
AyahsLong == 2

WordsLong == 12

AyahsShort == 3

WordsShort == 7

(* Explicit verse bounds of a request range over 1..MaxVerseArg. *)
MaxVerseArg == 4

(* Explicit word bounds of a request range over 1..MaxWordArg. *)
MaxWordArg == 2

(* Longest run of files already on disk when the run starts. *)
MaxPre == 2

(***************************************************************************)
(* Program constants.                                                      *)
(***************************************************************************)
max_retries == 3

max_consecutive_404s == 5

(* constants.py: the limit of the TCP connector of the session. *)
CONCURRENT_DOWNLOADS == 5

(***************************************************************************)
(* Catalog.                                                                *)
(***************************************************************************)
(* Chapter 1 is the long chapter, chapter 2 the short one; no chapter 3. *)
Long ==
    [surah_id |-> 1, ayah_range |-> <<1, AyahsLong>>,
     word_range |-> <<1, WordsLong>>]

Short ==
    [surah_id |-> 2, ayah_range |-> <<1, AyahsShort>>,
     word_range |-> <<WordsLong + 1, WordsLong + WordsShort>>]

quran_data == {Long, Short}

LongSurah == Long.surah_id

ShortSurah == Short.surah_id

MissingSurah == Short.surah_id + 1

SurahFound(id) == \E s \in quran_data : s.surah_id = id

get_surah_by_id(id) == CHOOSE s \in quran_data : s.surah_id = id

(* words_per_ayah by integer division, the last ayah takes the remainder. *)
ayah_word_mapping(id) ==
    LET surah == get_surah_by_id(id)
        lo == surah.ayah_range[1]
        hi == surah.ayah_range[2]
        total_ayahs == hi - lo + 1
        total_words == surah.word_range[2] - surah.word_range[1] + 1
        words_per_ayah == total_words \div total_ayahs
    IN  [a \in lo..hi |->
            IF a = hi THEN total_words - words_per_ayah * (total_ayahs - 1)
            ELSE words_per_ayah]

(* The words each verse holds in the reference data (Catalog Entry.verses
   of the data model): the first verse is the longest one here, where the
   division above gives the surplus to the last.                           *)
verse_word_counts(id) ==
    LET surah == get_surah_by_id(id)
        lo == surah.ayah_range[1]
        hi == surah.ayah_range[2]
        total_words == surah.word_range[2] - surah.word_range[1] + 1
        shortest == total_words \div (hi - lo + 1)
    IN  [a \in lo..hi |->
            IF a = lo THEN total_words - shortest * (hi - lo) ELSE shortest]

(***************************************************************************)
(* State.                                                                  *)
(***************************************************************************)
VARIABLES
    pc,                   \* "new", "no_object", "init", "word", "await", "verse", "finalizing", "done", "raised"
    req,                  \* the arguments of download_surah_enhanced_async
    error,                \* the exception raised, "" when none
    disk,                 \* files present and non-empty: <<verse, word>>, word 0 = the verse file
    state_file,           \* download_state_<id>.json: <<>> absent, else <<last_verse, last_word>>
    start_verse,          \* the locals of the download function
    end_verse,
    start_word,
    end_word,
    total_files,
    successful_downloads,
    failed_downloads,
    verse_id,
    word_id,
    consecutive_404s,
    attempt,              \* loop index of _download_word_with_retry
    gets,                 \* number of GETs issued per URL <<verse, word>>
    outcome,              \* per file reached by the loops: "exists", "ok" or "fail"
    last_response,        \* the remote answer to the most recent GET
    last_url,             \* the <<verse, word>> of its URL, <<>> before the first GET
    last_success,         \* <<>> or the <<verse, word>> of the latest fetched-and-written file
    disk0,                \* disk and state file when the run started
    state_file0,
    partial,              \* files left zero-byte or truncated by a write that did not finish
    download_state,       \* self.download_state: the counters the object keeps
    progress_callback,    \* self.progress_callback: "none", or an observer, "quiet" or "throwing"
    events,               \* number of calls of the progress callback
    last_event,           \* the <<current, total>> of the latest call, <<>> before the first
    callback_raised,      \* the progress callback has raised an exception
    in_flight,            \* GETs issued on the session and not yet answered
    other,                \* a second invocation on the same object: its place and its locals
    store,                \* the state files of the download directory: file name -> JSON text
    saved,                \* per chapter, the position of its latest save since its latest clean-up
    io_faults,            \* whether reads and writes of the state file can fail in this run
    data_file,            \* quran_data.json: "present", "absent" or "malformed"
    last_save,            \* how the latest _save_download_state of the run went, "" before the first
    prev,                 \* the earlier run in this download directory: how it ended and its result, <<>> when there was none
    total_size            \* bytes of the files counted successful so far, in units of one audio body

vars == <<pc, req, error, disk, state_file, start_verse, end_verse,
          start_word, end_word, total_files, successful_downloads,
          failed_downloads, verse_id, word_id, consecutive_404s, attempt,
          gets, outcome, last_response, last_url, last_success, disk0,
          state_file0, partial, download_state, progress_callback, events,
          last_event, callback_raised, in_flight, other, store, saved,
          io_faults, data_file, last_save,
          prev,
          total_size>>

(***************************************************************************)
(* Requests and initial file systems.                                      *)
(***************************************************************************)
VerseRanges ==
    {<<None, None>>} \cup ((1..MaxVerseArg) \X (1..MaxVerseArg))

WordRanges ==
    {<<None, None>>} \cup ((1..MaxWordArg) \X (1..MaxWordArg))

Request(id, type, vr, wr, resume) ==
    [surah_id |-> id, download_type |-> type,
     start_verse |-> vr[1], end_verse |-> vr[2],
     start_word |-> wr[1], end_word |-> wr[2], resume |-> resume]

(* Every combination on the short chapter; verse mode takes no word range. *)
ShortRequests ==
    { Request(ShortSurah, "word_by_word", vr, wr, r) :
        vr \in VerseRanges, wr \in WordRanges, r \in BOOLEAN }
    \cup
    { Request(ShortSurah, "verse_by_verse", vr, <<None, None>>, r) :
        vr \in VerseRanges, r \in BOOLEAN }

(* The long chapter is downloaded whole. *)
LongRequests ==
    { Request(LongSurah, "word_by_word", <<None, None>>, <<None, None>>, r) :
        r \in BOOLEAN }

MissingRequests ==
    { Request(MissingSurah, "word_by_word", <<None, None>>, <<None, None>>, TRUE) }

Requests == ShortRequests \cup LongRequests \cup MissingRequests

(* Files left by an earlier run: words 1..k of one verse, or the verse
   files of verses 1..k, with or without the state file of that run.       *)
WordPrefix(v, k) == { <<v, w>> : w \in 1..k }

VersePrefix(k) == { <<v, 0>> : v \in 1..k }

FileSystems(id) ==
    IF ~SurahFound(id) THEN { [disk |-> {}, state_file |-> <<>>] }
    ELSE
    LET m == ayah_word_mapping(id)
    IN  { [disk |-> {}, state_file |-> <<>>] }
        \cup
        UNION { { [disk |-> WordPrefix(v, k), state_file |-> sf] :
                    sf \in {<<>>, <<v, k>>} } :
                v \in DOMAIN m, k \in 1..MaxPre }
        \cup
        UNION { { [disk |-> VersePrefix(k), state_file |-> sf] :
                    sf \in {<<>>, <<k, None>>} } :
                k \in 1..Min(MaxPre, Cardinality(DOMAIN m)) }

LongFileSystems ==
    { [disk |-> WordPrefix(1, k), state_file |-> <<>>] : k \in 0..MaxPre }

(* No second invocation, and one that has just been called. *)
NoOther ==
    [pc |-> "absent", verse_id |-> 0, word_id |-> 0, consecutive_404s |-> 0,
     successful_downloads |-> 0, failed_downloads |-> 0, total_files |-> 0]

OtherCalled == [NoOther EXCEPT !.pc = "init"]

(* The requests, the download directory and the locals before a call
   with one of the requests;
   callbacks: what set_progress_callback may have installed; others: the
   second invocation on the object, if any; faults: whether the state file
   can be unreadable and its writes can fail.                              *)
Environment(requests, callbacks, others, faults) ==
    /\ req \in requests
    /\ error = ""
    /\ io_faults \in faults
    /\ \E fs \in (IF req.surah_id = LongSurah THEN LongFileSystems
                  ELSE FileSystems(req.surah_id)) :
       \E sf \in {fs.state_file} \cup (IF io_faults THEN {Corrupt} ELSE {}) :
          /\ disk = fs.disk
          /\ state_file = sf
          /\ disk0 = fs.disk
          /\ state_file0 = sf
    /\ start_verse = None
    /\ end_verse = None
    /\ start_word = None
    /\ end_word = None
    /\ total_files = 0
    /\ successful_downloads = 0
    /\ failed_downloads = 0
    /\ verse_id = 0
    /\ word_id = 0
    /\ consecutive_404s = 0
    /\ attempt = 0
    /\ gets = <<>>
    /\ outcome = <<>>
    /\ last_response = ""
    /\ last_url = <<>>
    /\ last_success = <<>>
    /\ partial = {}
    /\ download_state = [total_files |-> 0, completed_files |-> 0,
                         failed_files |-> 0, failed_downloads |-> None]
    /\ progress_callback \in callbacks
    /\ events = 0
    /\ last_event = <<>>
    /\ callback_raised = FALSE
    /\ in_flight = 0
    /\ other \in others
    /\ store = <<>>
    /\ saved = <<>>
    /\ last_save = ""
    /\ prev = <<>>
    /\ total_size = 0

(* The state after construction from a readable reference data file. *)
Start(requests, callbacks, others, faults) ==
    /\ pc = "init"
    /\ data_file = "present"
    /\ Environment(requests, callbacks, others, faults)

Init == Start(Requests, {"none"}, {NoOther}, {FALSE})


(***************************************************************************)
(* Resume-state store.                                                     *)
(***************************************************************************)
(* _load_download_state: the stored record, or the default when the file
   is absent or json.load raises on it.                                    *)
load_download_state ==
    IF state_file = <<>> \/ state_file = Corrupt THEN <<0, 0>> ELSE state_file

(* What a call of _save_download_state can meet: the file is written, or
   open fails, or the write fails after open has truncated the file.       *)
SaveResults ==
    IF io_faults THEN {"saved", "failed_open", "failed_write"} ELSE {"saved"}

(* A save whose I/O error is not caught. *)
save_failure_uncaught(res) == IF res = "saved" THEN "return" ELSE "raise"

(* _save_download_state: open and json.dump are inside try/except
   Exception, which logs and returns.                                      *)
save_failure(res) == "return"

(* A save that takes its arguments in the wrong order. *)
save_download_state_swapped(v, w) == <<w, v>>

(* A save that writes nothing. *)
save_download_state_lost(v, w) == state_file

(* _save_download_state(surah_id, verse_id, word_id): the file's new content. *)
save_download_state(v, w) == <<v, w>>

(* The state file after a call of _save_download_state that went res. *)
state_file_after(res, v, w) ==
    IF res = "saved" THEN save_download_state(v, w)
    ELSE IF res = "failed_write" THEN Corrupt
    ELSE state_file

(* A clean-up that removes the state file whatever was downloaded. *)
cleanup_state_always(successful) == <<>>

(* The state file after the clean-up that ends a run. *)
cleanup_state(successful) == IF successful > 0 THEN <<>> ELSE state_file

(* An existence check that never finds the file. *)
check_file_exists_never(f) == FALSE

(* An existence check that only a resuming run makes. *)
check_file_exists_when_resuming(f) == req.resume /\ f \in disk

(* _check_file_exists: present and of size > 0. *)
check_file_exists(f) == f \in disk

(***************************************************************************)
(* Fetch worker.                                                           *)
(***************************************************************************)
(* What one GET can meet: 200, 404, another status, a transport error or
   timeout.                                                                *)
Responses == {"200", "404", "500", "error"}

(* The answers with status 200: with the audio body, and with an empty
   body.                                                                   *)
OkResponses == {"200", "200_empty"}

(* What one GET can meet when the remote may also send an empty body. *)
AnyResponses == Responses \cup OkResponses

(* A fetch that lets every failure escape as an exception. *)
download_audio_async_raising(resp) == IF resp = "200" THEN "True" ELSE "raise"

(* download_audio_async: (True, size) on 200; (False, 0) on every other
   status and on every exception, which it catches itself.                 *)
download_audio_async(resp) == IF resp \in OkResponses THEN "True" ELSE "False"

(* len(content) of the body read from a 200 answer, in units of one audio
   body: 0 for an empty body.                                              *)
len_content(resp) == IF resp = "200" THEN 1 ELSE 0

(* os.path.getsize of a file the existence check has found. *)
getsize(f) == IF f \in disk THEN 1 ELSE 0

(* A fetch that streams the body into the file as it arrives, so that a
   transport error or timeout leaves what was received.                    *)
file_written_streamed(resp) ==
    IF resp = "200" THEN "whole" ELSE IF resp = "error" THEN "truncated" ELSE "none"

(* What download_audio_async leaves at file_path: the body is read whole
   (response.read()) before the file is opened, and only on status 200;
   an empty body is written as a zero-byte file.                           *)
file_written(resp) ==
    IF resp = "200" THEN "whole"
    ELSE IF resp = "200_empty" THEN "empty" ELSE "none"

(* One pass of the loop of _download_word_with_retry on the result of
   download_audio_async: return success, return failure, or go round
   again (only after an exception, and not on the last attempt).           *)
download_word_with_retry(result, att) ==
    IF result = "True" THEN "return_true"
    ELSE IF result = "False" THEN "return_false"
    ELSE IF att = max_retries - 1 THEN "return_false"
    ELSE "retry"

(***************************************************************************)
(* Progress observer.                                                      *)
(***************************************************************************)
(* A progress update that lets the exception of the callback through. *)
update_progress_unguarded(raises) == IF raises THEN "raise" ELSE "return"

(* _update_progress: the call of the callback is inside try/except
   Exception, which logs and returns.                                      *)
update_progress(raises) == "return"

(***************************************************************************)
(* Planning of download_word_by_word.                                      *)
(***************************************************************************)
(* The two range tests at the head of both loops over the mapping. *)
Skipped(v, sv, ev) == (Truthy(sv) /\ v < sv) \/ (Truthy(ev) /\ v > ev)

verse_start_word(v, sv, sw) == IF v = sv THEN sw ELSE 1

verse_end_word(v, ev, ew, word_count) == IF v = ev THEN ew ELSE word_count

(* start_verse and start_word after the resume block. *)
ResumedStartVerse(r) ==
    IF r.resume /\ r.start_verse = None THEN load_download_state[1]
    ELSE r.start_verse

ResumedStartWord(r) ==
    IF r.resume /\ r.start_word = None /\ Truthy(load_download_state[2])
    THEN load_download_state[2]
    ELSE r.start_word

(* verse_end_word - verse_start_word with a None operand: TypeError. *)
RaisesTypeError(m, sv, ev, sw, ew) ==
    \E v \in DOMAIN m :
        /\ ~Skipped(v, sv, ev)
        /\ \/ verse_start_word(v, sv, sw) = None
           \/ verse_end_word(v, ev, ew, m[v]) = None

(* Files one verse adds to total_files. *)
VerseFiles(m, v, sv, ev, sw, ew) ==
    IF Skipped(v, sv, ev) THEN 0
    ELSE Max(0, verse_end_word(v, ev, ew, m[v]) - verse_start_word(v, sv, sw) + 1)

RECURSIVE SumVerseFiles(_, _, _, _, _, _)
SumVerseFiles(m, S, sv, ev, sw, ew) ==
    IF S = {} THEN 0
    ELSE LET v == CHOOSE x \in S : TRUE
         IN  VerseFiles(m, v, sv, ev, sw, ew)
             + SumVerseFiles(m, S \ {v}, sv, ev, sw, ew)

word_total_files(m, sv, ev, sw, ew) == SumVerseFiles(m, DOMAIN m, sv, ev, sw, ew)

(* The first word the loops reach from verse v0 on: <<verse, word>>, or
   <<0, 0>> when the verse loop is over.                                   *)
FirstWordFrom(m, v0, sv, ev, sw, ew) ==
    LET C == { v \in DOMAIN m :
                 /\ v >= v0
                 /\ ~Skipped(v, sv, ev)
                 /\ verse_start_word(v, sv, sw) <= verse_end_word(v, ev, ew, m[v]) }
    IN  IF C = {} THEN <<0, 0>>
        ELSE LET v == CHOOSE x \in C : \A y \in C : x <= y
             IN  <<v, verse_start_word(v, sv, sw)>>

(* A word loop without the break. *)
NextWord_no_break(m, v, w, broke, sv, ev, sw, ew) ==
    IF w < IF v = ev THEN ew ELSE m[v] THEN <<v, w + 1>>
    ELSE LET C == { x \in DOMAIN m :
                      /\ x > v
                      /\ ~((Truthy(sv) /\ x < sv) \/ (Truthy(ev) /\ x > ev))
                      /\ (IF x = sv THEN sw ELSE 1) <= (IF x = ev THEN ew ELSE m[x]) }
         IN  IF C = {} THEN <<0, 0>>
             ELSE LET x == CHOOSE y \in C : \A z \in C : y <= z
                  IN  <<x, IF x = sv THEN sw ELSE 1>>

(* The word after <<v, w>>; broke: the word loop was left by break. *)
NextWord(m, v, w, broke, sv, ev, sw, ew) ==
    IF ~broke /\ w < verse_end_word(v, ev, ew, m[v]) THEN <<v, w + 1>>
    ELSE FirstWordFrom(m, v + 1, sv, ev, sw, ew)


(***************************************************************************)
(* Actions.                                                                *)
(***************************************************************************)
Mapping == ayah_word_mapping(req.surah_id)

CountGet(url) ==
    IF url \in DOMAIN gets THEN [gets EXCEPT ![url] = @ + 1]
    ELSE gets @@ (url :> 1)

Record(f, what) == outcome @@ (f :> what)

(* download_state[key] += 1 *)
Incremented(key) == [download_state EXCEPT ![key] = @ + 1]

(* Whether a call of the callback raises: only a throwing observer can. *)
CallbackRaises == IF progress_callback = "throwing" THEN BOOLEAN ELSE {FALSE}

(* The exception of the callback leaves the download function. *)
Abort ==
    /\ pc' = "raised"
    /\ error' = "CallbackError"
    /\ UNCHANGED <<verse_id, word_id, consecutive_404s>>

(* The I/O error of a save leaves the download function. *)
AbortSave ==
    /\ pc' = "raised"
    /\ error' = "OSError"
    /\ UNCHANGED <<verse_id, word_id, consecutive_404s, events, last_event,
                   callback_raised>>

(* _update_progress(current, total, ...) and then the rest of the loop
   round, go: nothing without a callback; else the callback is called and
   whatever it raises is caught.                                           *)
Notify(current, total, go) ==
    IF progress_callback = "none"
    THEN /\ go
         /\ UNCHANGED <<error, events, last_event, callback_raised>>
    ELSE \E raises \in CallbackRaises :
            /\ events' = events + 1
            /\ last_event' = <<current, total>>
            /\ callback_raised' = (callback_raised \/ raises)
            /\ IF update_progress(raises) = "raise" THEN Abort
               ELSE go /\ UNCHANGED error

(* download_surah_enhanced_async: the chapter is not in the catalog. *)
RaiseNotFound ==
    /\ pc = "init"
    /\ ~SurahFound(req.surah_id)
    /\ pc' = "raised"
    /\ error' = "ValueError"
    /\ UNCHANGED <<req, disk, state_file, start_verse, end_verse, start_word,
                   end_word, total_files, successful_downloads,
                   failed_downloads, verse_id, word_id, consecutive_404s,
                   attempt, gets, outcome, last_response, last_url,
                   last_success, disk0, state_file0, partial, download_state,
                   progress_callback, events, last_event, callback_raised,
                   in_flight, other, store, saved, io_faults, data_file,
                   last_save,
                   prev,
                   total_size>>

(* download_word_by_word up to the first word: the resume block, the count
   of total_files (which raises TypeError on a None word bound) and the
   entry of the loops.                                                     *)
CallWord ==
    /\ pc = "init"
    /\ SurahFound(req.surah_id)
    /\ req.download_type = "word_by_word"
    /\ LET sv == ResumedStartVerse(req)
           sw == ResumedStartWord(req)
           ev == req.end_verse
           ew == req.end_word
           m == Mapping
           lo == get_surah_by_id(req.surah_id).ayah_range[1]
           first == FirstWordFrom(m, lo, sv, ev, sw, ew)
       IN  /\ start_verse' = sv
           /\ start_word' = sw
           /\ end_verse' = ev
           /\ end_word' = ew
           /\ IF RaisesTypeError(m, sv, ev, sw, ew)
              THEN /\ pc' = "raised"
                   /\ error' = "TypeError"
                   /\ UNCHANGED <<total_files, verse_id, word_id>>
                   /\ UNCHANGED download_state
              ELSE /\ total_files' = word_total_files(m, sv, ev, sw, ew)
                   /\ download_state' =
                         [download_state EXCEPT
                            !.total_files = word_total_files(m, sv, ev, sw, ew),
                            !.completed_files = 0,
                            !.failed_files = 0]
                   /\ pc' = IF first = <<0, 0>> THEN "finalizing" ELSE "word"
                   /\ verse_id' = first[1]
                   /\ word_id' = first[2]
                   /\ error' = error
    /\ UNCHANGED <<req, disk, state_file, successful_downloads,
                   failed_downloads, consecutive_404s, attempt, gets, outcome,
                   last_response, last_url, last_success, disk0, state_file0,
                   partial, progress_callback, events, last_event,
                   callback_raised, in_flight, other, store, saved, io_faults,
                   data_file, last_save,
                   prev,
                   total_size>>

(* The loops of download_word_by_word move on from word <<verse_id, word_id>>;
   cons is consecutive_404s after that word.                               *)
MoveOn(broke, cons) ==
    LET nxt == NextWord(Mapping, verse_id, word_id, broke,
                        start_verse, end_verse, start_word, end_word)
    IN  /\ pc' = IF nxt = <<0, 0>> THEN "finalizing" ELSE "word"
        /\ verse_id' = IF nxt = <<0, 0>> THEN verse_id ELSE nxt[1]
        /\ word_id' = IF nxt = <<0, 0>> THEN word_id ELSE nxt[2]
        /\ consecutive_404s' =
              IF nxt # <<0, 0>> /\ nxt[1] # verse_id THEN 0 ELSE cons

(* The word's file is already there: counted, not fetched. *)
WordExists ==
    /\ pc = "word"
    /\ check_file_exists(<<verse_id, word_id>>)
    /\ successful_downloads' = successful_downloads + 1
    /\ total_size' = total_size + getsize(<<verse_id, word_id>>)
    /\ outcome' = Record(<<verse_id, word_id>>, "exists")
    /\ download_state' = Incremented("completed_files")
    /\ Notify(download_state'.completed_files, total_files, MoveOn(FALSE, 0))
    /\ UNCHANGED <<req, disk, state_file, start_verse, end_verse, start_word,
                   end_word, total_files, failed_downloads, attempt, gets,
                   last_response, last_url, last_success, disk0, state_file0,
                   partial, progress_callback, in_flight, other, store, saved,
                   io_faults, data_file, last_save,
                   prev>>

(* The answer, one of resps, to the GET of _download_word_with_retry for
   the word <<verse_id, word_id>>, and the rest of the loop round.         *)
WordAnsweredFrom(resps) ==
    /\ \E resp \in resps :
        LET f == <<verse_id, word_id>>
            step == download_word_with_retry(download_audio_async(resp), attempt)
            cons == consecutive_404s + 1
        IN  /\ gets' = CountGet(f)
            /\ last_response' = resp
            /\ last_url' = f
            /\ disk' = IF file_written(resp) = "whole" THEN disk \cup {f} ELSE disk
            /\ partial' = IF file_written(resp) \in {"truncated", "empty"}
                          THEN partial \cup {f}
                          ELSE IF file_written(resp) = "whole"
                          THEN partial \ {f} ELSE partial
            /\ last_success' = IF resp \in OkResponses THEN f ELSE last_success
            /\ CASE step = "retry" ->
                      /\ attempt' = attempt + 1
                      /\ pc' = "word"
                      /\ UNCHANGED <<error, verse_id, word_id,
                                     consecutive_404s, successful_downloads,
                                     failed_downloads, state_file, outcome,
                                     download_state, events, last_event,
                                     callback_raised, last_save, total_size>>
                 [] step = "return_true" ->
                      /\ attempt' = 0
                      /\ successful_downloads' = successful_downloads + 1
                      /\ total_size' = total_size + len_content(resp)
                      /\ download_state' = Incremented("completed_files")
                      /\ outcome' = Record(f, "ok")
                      /\ \E res \in SaveResults :
                            /\ state_file' = state_file_after(res, verse_id, word_id)
                            /\ last_save' = res
                            /\ IF save_failure(res) = "raise" THEN AbortSave
                               ELSE Notify(download_state'.completed_files,
                                           total_files, MoveOn(FALSE, 0))
                      /\ UNCHANGED failed_downloads
                 [] step = "return_false" ->
                      /\ attempt' = 0
                      /\ failed_downloads' = failed_downloads + 1
                      /\ download_state' = Incremented("failed_files")
                      /\ outcome' = Record(f, "fail")
                      /\ IF cons >= max_consecutive_404s
                         THEN /\ MoveOn(TRUE, cons)
                              /\ UNCHANGED <<error, events, last_event,
                                             callback_raised>>
                         ELSE Notify(download_state'.completed_files, total_files,
                                     MoveOn(FALSE, cons))
                      /\ UNCHANGED <<successful_downloads, state_file,
                                     last_save, total_size>>
    /\ UNCHANGED <<req, start_verse, end_verse, start_word, end_word,
                   total_files, disk0, state_file0, progress_callback, other,
                   store, saved, io_faults, data_file,
                   prev>>

(* The answer of a remote that sends the audio body with every 200. *)
WordAnswered == WordAnsweredFrom(Responses)

(* One GET of _download_word_with_retry and what follows its answer. *)
WordFetch ==
    /\ pc = "word"
    /\ ~check_file_exists(<<verse_id, word_id>>)
    /\ WordAnswered
    /\ UNCHANGED in_flight

(* download_verse_by_verse up to the first verse. *)
CallVerse ==
    /\ pc = "init"
    /\ SurahFound(req.surah_id)
    /\ req.download_type = "verse_by_verse"
    /\ LET ayah_range == get_surah_by_id(req.surah_id).ayah_range
           resumed == ResumedStartVerse(req)
           sv == IF resumed = None THEN ayah_range[1] ELSE resumed
           ev == IF req.end_verse = None THEN ayah_range[2] ELSE req.end_verse
       IN  /\ start_verse' = sv
           /\ end_verse' = ev
           /\ total_files' = ev - sv + 1
           /\ download_state' =
                 [download_state EXCEPT
                    !.total_files = ev - sv + 1,
                    !.completed_files = 0,
                    !.failed_downloads = 0]
           /\ pc' = IF sv <= ev THEN "verse" ELSE "finalizing"
           /\ verse_id' = IF sv <= ev THEN sv ELSE verse_id
    /\ UNCHANGED <<req, error, disk, state_file, start_word, end_word,
                   successful_downloads, failed_downloads, word_id,
                   consecutive_404s, attempt, gets, outcome, last_response,
                   last_url, last_success, disk0, state_file0, partial,
                   progress_callback, events, last_event, callback_raised,
                   in_flight, other, store, saved, io_faults, data_file,
                   last_save,
                   prev,
                   total_size>>

(* for verse_id in range(start_verse, end_verse + 1): the next round. *)
NextVerse ==
    /\ pc' = IF verse_id < end_verse THEN "verse" ELSE "finalizing"
    /\ verse_id' = IF verse_id < end_verse THEN verse_id + 1 ELSE verse_id

VerseExists ==
    /\ pc = "verse"
    /\ check_file_exists(<<verse_id, 0>>)
    /\ successful_downloads' = successful_downloads + 1
    /\ total_size' = total_size + getsize(<<verse_id, 0>>)
    /\ outcome' = Record(<<verse_id, 0>>, "exists")
    /\ download_state' = Incremented("completed_files")
    /\ Notify(download_state'.completed_files, total_files, NextVerse)
    /\ UNCHANGED <<req, disk, state_file, start_verse, end_verse, start_word,
                   end_word, total_files, failed_downloads, word_id,
                   consecutive_404s, attempt, gets, last_response, last_url,
                   last_success, disk0, state_file0, partial,
                   progress_callback, in_flight, other, store, saved,
                   io_faults, data_file, last_save,
                   prev>>

(* The verse is fetched from the URL of its word 1, once. *)
VerseFetch ==
    /\ pc = "verse"
    /\ ~check_file_exists(<<verse_id, 0>>)
    /\ \E resp \in Responses :
        LET f == <<verse_id, 0>>
            result == download_audio_async(resp)
        IN  /\ gets' = CountGet(<<verse_id, 1>>)
            /\ last_response' = resp
            /\ last_url' = <<verse_id, 1>>
            /\ disk' = IF file_written(resp) = "whole" THEN disk \cup {f} ELSE disk
            /\ partial' = IF file_written(resp) \in {"truncated", "empty"}
                          THEN partial \cup {f}
                          ELSE IF file_written(resp) = "whole"
                          THEN partial \ {f} ELSE partial
            /\ last_success' = IF resp \in OkResponses THEN f ELSE last_success
            /\ IF result = "True"
               THEN /\ successful_downloads' = successful_downloads + 1
                    /\ total_size' = total_size + len_content(resp)
                    /\ download_state' = Incremented("completed_files")
                    /\ outcome' = Record(f, "ok")
                    /\ \E res \in SaveResults :
                          /\ state_file' = state_file_after(res, verse_id, None)
                          /\ last_save' = res
                          /\ IF save_failure(res) = "raise" THEN AbortSave
                             ELSE Notify(download_state'.completed_files,
                                         total_files, NextVerse)
                    /\ UNCHANGED failed_downloads
               ELSE /\ failed_downloads' = failed_downloads + 1
                    /\ download_state' = Incremented("failed_files")
                    /\ outcome' = Record(f, "fail")
                    /\ Notify(download_state'.completed_files, total_files,
                              NextVerse)
                    /\ UNCHANGED <<successful_downloads, state_file,
                                   last_save, total_size>>
    /\ UNCHANGED <<req, start_verse, end_verse, start_word, end_word,
                   total_files, word_id, consecutive_404s, attempt, disk0,
                   state_file0, progress_callback, in_flight, other, store,
                   saved, io_faults, data_file,
                   prev>>

(* The end of both download functions: the state file is removed when a
   file was counted successful, and the result is returned.                *)
Finalize ==
    /\ pc = "finalizing"
    /\ state_file' = cleanup_state(successful_downloads)
    /\ pc' = "done"
    /\ UNCHANGED <<req, error, disk, start_verse, end_verse, start_word,
                   end_word, total_files, successful_downloads,
                   failed_downloads, verse_id, word_id, consecutive_404s,
                   attempt, gets, outcome, last_response, last_url,
                   last_success, disk0, state_file0, partial, download_state,
                   progress_callback, events, last_event, callback_raised,
                   in_flight, other, store, saved, io_faults, data_file,
                   last_save,
                   prev,
                   total_size>>

Next ==
    \/ RaiseNotFound
    \/ CallWord
    \/ WordExists
    \/ WordFetch
    \/ CallVerse
    \/ VerseExists
    \/ VerseFetch
    \/ Finalize

Spec == Init /\ [][Next]_vars

(***************************************************************************)
(* Runs with a progress observer installed: whole-chapter requests, the    *)
(* observer either never raising or raising at any of its calls.           *)
(***************************************************************************)
ObserverRequests ==
    { r \in Requests : /\ r.start_verse = None /\ r.end_verse = None
                       /\ r.start_word = None /\ r.end_word = None }

InitObserver == Start(ObserverRequests, {"quiet", "throwing"}, {NoOther}, {FALSE})

SpecObserver == InitObserver /\ [][Next]_vars

(***************************************************************************)
(* Two invocations on one QuranAudioDownloader, for different chapters,    *)
(* on one event loop: they take turns at every await.  The second is a     *)
(* whole-chapter word-by-word download of the other chapter into an empty  *)
(* directory, resume=False; its files and its state file are those of its  *)
(* own chapter and are left out, its calls of the callback are not         *)
(* recorded in events and last_event.  self.download_state is the one      *)
(* dict of the object.                                                     *)
(***************************************************************************)
OtherSurah == IF req.surah_id = LongSurah THEN ShortSurah ELSE LongSurah

OtherMapping == ayah_word_mapping(OtherSurah)

(* The remote answers to the second invocation. *)
OtherResponses == {"200", "404"}

OtherAt(nxt, cons) ==
    [other EXCEPT
       !.pc = IF nxt = <<0, 0>> THEN "finalizing" ELSE "word",
       !.verse_id = IF nxt = <<0, 0>> THEN @ ELSE nxt[1],
       !.word_id = IF nxt = <<0, 0>> THEN @ ELSE nxt[2],
       !.consecutive_404s =
           IF nxt # <<0, 0>> /\ nxt[1] # other.verse_id THEN 0 ELSE cons]

(* download_word_by_word of the second invocation up to its first word. *)
OtherCall ==
    /\ other.pc = "init"
    /\ LET m == OtherMapping
           total == word_total_files(m, None, None, None, None)
           first == FirstWordFrom(m, get_surah_by_id(OtherSurah).ayah_range[1],
                                  None, None, None, None)
       IN  /\ download_state' =
                 [download_state EXCEPT !.total_files = total,
                                        !.completed_files = 0,
                                        !.failed_files = 0]
           /\ other' = [OtherAt(first, 0) EXCEPT !.total_files = total]
    /\ UNCHANGED <<pc, req, error, disk, state_file, start_verse, end_verse,
                   start_word, end_word, total_files, successful_downloads,
                   failed_downloads, verse_id, word_id, consecutive_404s,
                   attempt, gets, outcome, last_response, last_url,
                   last_success, disk0, state_file0, partial,
                   progress_callback, events, last_event, callback_raised,
                   in_flight, store, saved, io_faults, data_file, last_save,
                   prev,
                   total_size>>

(* One word of the second invocation: its GET and the rest of the round. *)
OtherFetch ==
    /\ other.pc = "word"
    /\ \E resp \in OtherResponses :
        LET step == download_word_with_retry(download_audio_async(resp), 0)
            cons == other.consecutive_404s + 1
            nxt(broke) == NextWord(OtherMapping, other.verse_id, other.word_id,
                                   broke, None, None, None, None)
        IN  IF step = "return_true"
            THEN /\ download_state' = Incremented("completed_files")
                 /\ other' = [OtherAt(nxt(FALSE), 0) EXCEPT
                                 !.successful_downloads = @ + 1]
            ELSE /\ download_state' = Incremented("failed_files")
                 /\ other' = [OtherAt(nxt(cons >= max_consecutive_404s), cons)
                                 EXCEPT !.failed_downloads = @ + 1]
    /\ UNCHANGED <<pc, req, error, disk, state_file, start_verse, end_verse,
                   start_word, end_word, total_files, successful_downloads,
                   failed_downloads, verse_id, word_id, consecutive_404s,
                   attempt, gets, outcome, last_response, last_url,
                   last_success, disk0, state_file0, partial,
                   progress_callback, events, last_event, callback_raised,
                   in_flight, store, saved, io_faults, data_file, last_save,
                   prev,
                   total_size>>

OtherFinalize ==
    /\ other.pc = "finalizing"
    /\ other' = [other EXCEPT !.pc = "done"]
    /\ UNCHANGED <<pc, req, error, disk, state_file, start_verse, end_verse,
                   start_word, end_word, total_files, successful_downloads,
                   failed_downloads, verse_id, word_id, consecutive_404s,
                   attempt, gets, outcome, last_response, last_url,
                   last_success, disk0, state_file0, partial,
                   progress_callback, events, last_event, callback_raised,
                   in_flight, download_state, store, saved, io_faults,
                   data_file, last_save,
                   prev,
                   total_size>>

(* The first invocation asks for the first words of the first verse. *)
TwoRequests ==
    { Request(ShortSurah, "word_by_word", <<1, 1>>, <<1, MaxWordArg>>, FALSE) }

(* Both start from an empty download directory. *)
InitTwo ==
    /\ Start(TwoRequests, {"quiet"}, {OtherCalled}, {FALSE})
    /\ disk = {}
    /\ state_file = <<>>

NextTwo ==
    \/ CallWord
    \/ WordFetch
    \/ Finalize
    \/ OtherCall
    \/ OtherFetch
    \/ OtherFinalize

SpecTwo == InitTwo /\ [][NextTwo]_vars

(***************************************************************************)
(* The resume-state files of several chapters in one download directory:   *)
(* saves and clean-ups in any order.                                       *)
(***************************************************************************)
DigitChars == <<"0", "1", "2", "3", "4", "5", "6", "7", "8", "9">>

(* str(n) of a natural number. *)
RECURSIVE int_to_str(_)
int_to_str(n) ==
    IF n < 10 THEN <<DigitChars[n + 1]>>
    ELSE int_to_str(n \div 10) \o <<DigitChars[(n % 10) + 1]>>

DigitValue(c) == (CHOOSE i \in 1..10 : DigitChars[i] = c) - 1

RECURSIVE str_to_int(_)
str_to_int(t) ==
    IF Len(t) = 1 THEN DigitValue(t[1])
    ELSE 10 * str_to_int(SubSeq(t, 1, Len(t) - 1)) + DigitValue(t[Len(t)])

(* json.dump / json.load of an int-or-None value. *)
json_value(x) == IF x = None THEN <<"n", "u", "l", "l">> ELSE int_to_str(x)

json_parse(t) == IF t = <<"n", "u", "l", "l">> THEN None ELSE str_to_int(t)

(* One state file for all chapters. *)
state_file_name_shared(surah_id) == <<"download_state", ".json">>

(* f"download_state_{surah_id}.json" *)
state_file_name(surah_id) ==
    <<"download_state_">> \o int_to_str(surah_id) \o <<".json">>

(* json.dump(state, f) of _save_download_state, without the timestamp. *)
json_dump(surah_id, verse, word) ==
    [surah_id |-> json_value(surah_id), last_verse |-> json_value(verse),
     last_word |-> json_value(word)]

(* _load_download_state(surah_id) on the files of the directory:
   <<last_verse, last_word>> of the file, or of the default.               *)
load_state(surah_id) ==
    IF state_file_name(surah_id) \in DOMAIN store
    THEN LET state == store[state_file_name(surah_id)]
         IN  <<json_parse(state.last_verse), json_parse(state.last_word)>>
    ELSE <<0, 0>>

(* Chapter ids with one and with two digits. *)
StoreChapters == {LongSurah, ShortSurah, 10 * LongSurah + ShortSurah}

(* Positions saved: a verse and a word, or no word (verse mode). *)
StoreWords == {None} \cup (1..MaxWordArg)

(* _save_download_state(surah_id, verse_id, word_id) *)
StoreSave ==
    \E c \in StoreChapters, v \in 1..MaxVerseArg, w \in StoreWords :
        /\ store' = (state_file_name(c) :> json_dump(c, v, w)) @@ store
        /\ saved' = (c :> <<v, w>>) @@ saved
        /\ UNCHANGED <<pc, req, error, disk, state_file, start_verse,
                       end_verse, start_word, end_word, total_files,
                       successful_downloads, failed_downloads, verse_id,
                       word_id, consecutive_404s, attempt, gets, outcome,
                       last_response, last_url, last_success, disk0,
                       state_file0, partial, download_state,
                       progress_callback, events, last_event, callback_raised,
                       in_flight, other, io_faults, data_file, last_save,
                       prev, total_size>>

(* The clean-up at the end of a run: os.remove of the chapter's file. *)
StoreClear ==
    \E c \in StoreChapters :
        /\ state_file_name(c) \in DOMAIN store
        /\ store' = [n \in DOMAIN store \ {state_file_name(c)} |-> store[n]]
        /\ saved' = [d \in DOMAIN saved \ {c} |-> saved[d]]
        /\ UNCHANGED <<pc, req, error, disk, state_file, start_verse,
                       end_verse, start_word, end_word, total_files,
                       successful_downloads, failed_downloads, verse_id,
                       word_id, consecutive_404s, attempt, gets, outcome,
                       last_response, last_url, last_success, disk0,
                       state_file0, partial, download_state,
                       progress_callback, events, last_event, callback_raised,
                       in_flight, other, io_faults, data_file, last_save,
                       prev, total_size>>

InitStore ==
    /\ Start(MissingRequests, {"none"}, {NoOther}, {FALSE})
    /\ disk = {}
    /\ state_file = <<>>

NextStore ==
    \/ StoreSave
    \/ StoreClear

SpecStore == InitStore /\ [][NextStore]_vars

(***************************************************************************)
(* Runs in which the state file can be unparsable at the start and every   *)
(* save can fail: whole-chapter requests on the short chapter, and on a    *)
(* chapter that is not in the catalog.                                     *)
(***************************************************************************)
FaultRequests == { r \in ObserverRequests : r.surah_id # LongSurah }

InitFaults == Start(FaultRequests, {"none"}, {NoOther}, {TRUE})

SpecFaults == InitFaults /\ [][Next]_vars

(***************************************************************************)
(* Construction of the QuranAudioDownloader from a reference data file     *)
(* that is readable, absent or not JSON, and then a request.               *)
(***************************************************************************)
DataFiles == {"present", "absent", "malformed"}

(* load_quran_data: the catalog is returned, or an exception raised. *)
load_quran_data(file) ==
    IF file = "present" THEN "return"
    ELSE IF file = "absent" THEN "FileNotFoundError"
    ELSE "ValueError"

(* __init__: self.quran_data = load_quran_data(); an exception of the load
   leaves the constructor and there is no object.                          *)
Construct ==
    /\ pc = "new"
    /\ IF load_quran_data(data_file) = "return"
       THEN pc' = "init" /\ error' = error
       ELSE pc' = "no_object" /\ error' = load_quran_data(data_file)
    /\ UNCHANGED <<req, disk, state_file, start_verse, end_verse, start_word,
                   end_word, total_files, successful_downloads,
                   failed_downloads, verse_id, word_id, consecutive_404s,
                   attempt, gets, outcome, last_response, last_url,
                   last_success, disk0, state_file0, partial, download_state,
                   progress_callback, events, last_event, callback_raised,
                   in_flight, other, store, saved, io_faults, data_file,
                   last_save, prev, total_size>>

InitConstruct ==
    /\ pc = "new"
    /\ data_file \in DataFiles
    /\ Environment(FaultRequests, {"none"}, {NoOther}, {FALSE})

NextConstruct ==
    \/ Construct
    \/ Next

SpecConstruct == InitConstruct /\ [][NextConstruct]_vars

(***************************************************************************)
(* The word loop with the GET in two steps, the request going out and its  *)
(* answer coming in, to see how many requests are in flight.               *)
(***************************************************************************)
(* A word loop that starts the fetch of a word without awaiting it. *)
MayIssue_unawaited == pc \in {"word", "await"}

(* `await self._download_word_with_retry(...)`: the loop is at a word, no
   earlier fetch is awaited.                                               *)
MayIssue == pc = "word"

(* session.get: the connector admits the request while it has a free
   connection.                                                             *)
WordSend ==
    /\ MayIssue
    /\ ~check_file_exists(<<verse_id, word_id>>)
    /\ in_flight < CONCURRENT_DOWNLOADS
    /\ in_flight' = in_flight + 1
    /\ pc' = "await"
    /\ UNCHANGED <<req, error, disk, state_file, start_verse, end_verse,
                   start_word, end_word, total_files, successful_downloads,
                   failed_downloads, verse_id, word_id, consecutive_404s,
                   attempt, gets, outcome, last_response, last_url,
                   last_success, disk0, state_file0, partial, download_state,
                   progress_callback, events, last_event, callback_raised,
                   other, store, saved, io_faults, data_file, last_save,
                   prev,
                   total_size>>

WordReceive ==
    /\ pc = "await"
    /\ in_flight' = in_flight - 1
    /\ WordAnswered

FlightRequests ==
    { r \in ObserverRequests :
        SurahFound(r.surah_id) /\ r.download_type = "word_by_word" }

InitFlight == Start(FlightRequests, {"none"}, {NoOther}, {FALSE})

NextFlight ==
    \/ CallWord
    \/ WordExists
    \/ WordSend
    \/ WordReceive
    \/ Finalize

SpecFlight == InitFlight /\ [][NextFlight]_vars


(***************************************************************************)
(* Notions the claims use.                                                 *)
(***************************************************************************)
(* A download function has planned the run (total_files is set). *)
Planned == pc \in {"word", "verse", "finalizing", "done"}

WordMode == req.download_type = "word_by_word"

AyahRange == get_surah_by_id(req.surah_id).ayah_range

VerseRangeUnset == req.start_verse = None /\ req.end_verse = None

WordRangeUnset == req.start_word = None /\ req.end_word = None

(* The request's ranges as the data model wants them: unset, or
   start <= end within the chapter (verses) and from 1 (words).            *)
ValidRanges ==
    /\ \/ VerseRangeUnset
       \/ /\ AyahRange[1] <= req.start_verse
          /\ req.start_verse <= req.end_verse
          /\ req.end_verse <= AyahRange[2]
    /\ \/ WordRangeUnset
       \/ /\ 1 <= req.start_word
          /\ req.start_word <= req.end_word

(* A verse range that is given and is out of bounds or has start > end. *)
InvalidVerseRange ==
    /\ ~VerseRangeUnset
    /\ \/ req.start_verse > req.end_verse
       \/ req.start_verse < AyahRange[1]
       \/ req.end_verse > AyahRange[2]

Files(what) == { f \in DOMAIN outcome : outcome[f] = what }

(* C1: in every state of a chapter download and in the returned result,
   0 <= successful + failed <= total_files_expected, for any request.      *)
C1_CountsWithinTotal ==
    Planned =>
        /\ 0 <= successful_downloads + failed_downloads
        /\ successful_downloads + failed_downloads <= total_files

(* C2: a request on a chapter of the catalog whose ranges are valid, also
   one with a verse range and no word range, never aborts with an
   exception.                                                              *)
C2_ValidRequestNeverRaises ==
    (SurahFound(req.surah_id) /\ ValidRanges) => pc # "raised"

(* C7: a request with an invalid verse range is rejected: no result is
   returned (the run never gets past the call) and no GET is issued.       *)
C7_InvalidRangeRejected ==
    (SurahFound(req.surah_id) /\ InvalidVerseRange) =>
        /\ pc \in {"init", "raised"}
        /\ gets = <<>>


(* The words of verse v the loops have reached, and the verse's word range. *)
Visited(v) == { f[2] : f \in { g \in DOMAIN outcome : g[1] = v } }

FirstWord(v) == verse_start_word(v, start_verse, start_word)

LastWord(v) == verse_end_word(v, end_verse, end_word, Mapping[v])

InRun(v) == v \in DOMAIN Mapping /\ ~Skipped(v, start_verse, end_verse)

(* The word loop of verse v is over. *)
LeftVerse(v) == pc \in {"finalizing", "done"} \/ (pc = "word" /\ verse_id > v)

(* Word w of verse v and the words before it, max_consecutive_404s in all,
   were reached and failed.                                                *)
FailedInARow(v, w) ==
    \A i \in 0..(max_consecutive_404s - 1) :
        /\ <<v, w - i>> \in DOMAIN outcome
        /\ outcome[<<v, w - i>>] = "fail"

MaxOf(S) == CHOOSE x \in S : \A y \in S : y <= x

(* C3: the words reached in a verse are a prefix of its word range; once
   5 words in a row have failed no further word of the verse is reached
   and the loop goes to the next verse; a verse is left before its last
   word only after 5 failures in a row (a success or a present file in
   between starts the count again); failed counts exactly the words that
   were reached and failed.                                                *)
C3_ShortCircuitAfterFiveFailures ==
    (WordMode /\ Planned) =>
        /\ failed_downloads = Cardinality(Files("fail"))
        /\ \A v \in DOMAIN Mapping :
              InRun(v) =>
                /\ \A w \in Visited(v) :
                      /\ w \in FirstWord(v)..LastWord(v)
                      /\ \A u \in FirstWord(v)..w : u \in Visited(v)
                      /\ FailedInARow(v, w) =>
                            /\ LeftVerse(v)
                            /\ \A u \in Visited(v) : u <= w
                /\ (LeftVerse(v) /\ Visited(v) # FirstWord(v)..LastWord(v)) =>
                      /\ Visited(v) # {}
                      /\ FailedInARow(v, MaxOf(Visited(v)))

(* A verse was left after 5 failures with words still to come, and the run
   is at the next verse.                                                   *)
C3_Witness ==
    /\ WordMode
    /\ pc = "word"
    /\ \E v \in DOMAIN Mapping :
          /\ verse_id > v
          /\ FailedInARow(v, MaxOf(Visited(v) \cup {0}))
          /\ MaxOf(Visited(v) \cup {0}) < LastWord(v)

(* The URL a file is fetched from: a verse file from word 1 of the verse. *)
UrlOf(f) == IF f[2] = 0 THEN <<f[1], 1>> ELSE f

(* C4: with resume=true a file that is on disk when the run starts and
   whose word is reached is counted successful and never requested;
   successful counts the present and the fetched files; a whole-chapter
   run with no state file reaches, and so counts, every pre-populated word
   of the chapter.                                                         *)
C4_ResumeSkipsPresentFiles ==
    req.resume =>
        /\ \A f \in disk0 \cap DOMAIN outcome :
              /\ outcome[f] = "exists"
              /\ UrlOf(f) \notin DOMAIN gets
        /\ successful_downloads
              = Cardinality(Files("exists")) + Cardinality(Files("ok"))
        /\ ( /\ WordMode
             /\ pc \in {"finalizing", "done"}
             /\ state_file0 = <<>>
             /\ VerseRangeUnset
             /\ WordRangeUnset ) =>
              \A f \in disk0 :
                  (f[1] \in DOMAIN Mapping /\ f[2] \in 1..Mapping[f[1]]) =>
                      f \in DOMAIN outcome

(* Words 1..k of a verse were on disk, the run is over, all k were counted
   and none was requested, while other words were fetched.                 *)
C4_Witness ==
    /\ req.resume
    /\ WordMode
    /\ pc = "done"
    /\ gets # <<>>
    /\ \E v \in DOMAIN Mapping : \E k \in 2..MaxPre :
          /\ disk0 = WordPrefix(v, k)
          /\ \A f \in WordPrefix(v, k) :
                /\ f \in DOMAIN outcome
                /\ outcome[f] = "exists"
                /\ f \notin DOMAIN gets
          /\ successful_downloads >= k

(* The file a URL is written to. *)
FileOf(url) == IF WordMode THEN url ELSE <<url[1], 0>>

(* C6: a GET answered 404 is the only GET of its word in the run, and the
   word is counted failed once.                                            *)
C6_NotFoundNeverRetried ==
    last_response = "404" =>
        /\ gets[last_url] = 1
        /\ attempt = 0
        /\ FileOf(last_url) \in DOMAIN outcome
        /\ outcome[FileOf(last_url)] = "fail"
        /\ failed_downloads = Cardinality(Files("fail"))

(* A word was answered 404 and the run is at the next word. *)
C6_Witness ==
    /\ last_response = "404"
    /\ pc = "word"
    /\ last_url # <<verse_id, word_id>>
    /\ gets[last_url] = 1
    /\ failed_downloads >= 1

(* The resume state a successful write of file f leaves. *)
StateOf(f) == <<f[1], IF f[2] = 0 THEN None ELSE f[2]>>

(* The state file as the run should have left it so far. *)
ExpectedState ==
    IF last_success = <<>> THEN state_file0 ELSE StateOf(last_success)

(* C8: during a run the state file holds the position of the latest
   successful fetch-and-write of the run, and is as the run found it while
   there was none; failures and present files leave it alone.  The
   clean-up at the end can only remove it.                                 *)
C8_StateIsLastSuccessfulWrite ==
    /\ pc \in {"word", "verse", "finalizing"} => state_file = ExpectedState
    /\ pc = "done" => state_file \in {<<>>, ExpectedState}

(* After a successful write, a failed fetch and a present file were
   passed, and the state file still names the successful write.            *)
C8_Witness ==
    /\ pc \in {"word", "verse"}
    /\ last_success # <<>>
    /\ last_response # "200"
    /\ state_file = StateOf(last_success)
    /\ Files("exists") # {}


(* C5: a word whose fetch met a transient error (a status other than 200
   and 404, a timeout or a transport error) is counted failed only after
   max_retries GETs.                                                       *)
C5_TransientErrorRetried ==
    ( /\ WordMode
      /\ last_response \in {"500", "error"}
      /\ last_url \in DOMAIN outcome
      /\ outcome[last_url] = "fail" ) =>
        gets[last_url] = max_retries

(* The catalog's word counts of the whole chapter, and its verses. *)
ChapterVerses == AyahRange[1]..AyahRange[2]

ChapterWords == get_surah_by_id(req.surah_id).word_range[2]
                    - get_surah_by_id(req.surah_id).word_range[1] + 1

(* C9: with no verse range given and no state file, every URL requested
   is of a verse of the chapter and total_files counts the whole chapter:
   its words in word mode, its verses in verse mode.                       *)
C9_FullChapterWhenNothingGiven ==
    ( /\ SurahFound(req.surah_id)
      /\ VerseRangeUnset
      /\ WordRangeUnset
      /\ state_file0 = <<>> ) =>
        /\ \A url \in DOMAIN gets : url[1] \in ChapterVerses
        /\ Planned =>
              total_files = IF WordMode THEN ChapterWords
                            ELSE Cardinality(ChapterVerses)

(* The effective ranges as the planning step is specified: the explicit
   verse range, else the position of the state file (with resume), else
   the whole chapter; the start word on the first verse of the range only,
   the end word on its last verse only.                                    *)
Resuming == req.resume /\ VerseRangeUnset /\ state_file0 # <<>>

EffectiveStartVerse ==
    IF req.start_verse # None THEN req.start_verse
    ELSE IF Resuming THEN state_file0[1]
    ELSE AyahRange[1]

EffectiveEndVerse ==
    IF req.end_verse # None THEN req.end_verse ELSE AyahRange[2]

EffectiveFirstWord(v) ==
    IF v # EffectiveStartVerse THEN 1
    ELSE IF req.start_word # None THEN req.start_word
    ELSE IF Resuming /\ Truthy(state_file0[2]) THEN state_file0[2]
    ELSE 1

EffectiveLastWord(v) ==
    IF v = EffectiveEndVerse /\ req.end_word # None THEN req.end_word
    ELSE Mapping[v]

EffectiveVerses ==
    { v \in DOMAIN Mapping : EffectiveStartVerse <= v /\ v <= EffectiveEndVerse }

RECURSIVE SumEffectiveWords(_)
SumEffectiveWords(S) ==
    IF S = {} THEN 0
    ELSE LET v == CHOOSE x \in S : TRUE
         IN  Max(0, EffectiveLastWord(v) - EffectiveFirstWord(v) + 1)
             + SumEffectiveWords(S \ {v})

(* C10: total_files is the sum over the verses of the effective range of
   the verse's effective word count (1 per verse in verse mode).           *)
C10_TotalIsSumOfEffectiveWordCounts ==
    Planned =>
        total_files = IF WordMode THEN SumEffectiveWords(EffectiveVerses)
                      ELSE Cardinality(EffectiveVerses)

(* The files of the whole chapter by the reference data's word counts. *)
CatalogFiles ==
    { f \in ChapterVerses \X (1..ChapterWords) :
        f[2] <= verse_word_counts(req.surah_id)[f[1]] }

(* A whole-chapter word-by-word run from an empty directory, all of whose
   fetches were answered 200, has returned.                                *)
FullRunAllFetched ==
    /\ SurahFound(req.surah_id)
    /\ WordMode
    /\ VerseRangeUnset
    /\ WordRangeUnset
    /\ ~req.resume
    /\ disk0 = {}
    /\ pc = "done"
    /\ Files("ok") = DOMAIN outcome

(* C11: a whole-chapter word-by-word download whose fetches all succeed
   requests and writes exactly one file per (verse, word) with
   1 <= word <= the verse's own word count in the catalog, and returns
   total = successful = the number of those files, failed = 0.             *)
C11_OneFilePerCatalogWord ==
    FullRunAllFetched =>
        /\ DOMAIN gets = CatalogFiles
        /\ \A f \in CatalogFiles : gets[f] = 1
        /\ disk = CatalogFiles
        /\ total_files = Cardinality(CatalogFiles)
        /\ successful_downloads = Cardinality(CatalogFiles)
        /\ failed_downloads = 0

(* C12: the end of a run removes the state file when at least one file was
   counted successful, and leaves it exactly as it was when none was: it
   is then still the file the run found.                                   *)
C12_StateClearedIffSuccess ==
    /\ [](pc = "done" =>
             state_file = IF successful_downloads > 0 THEN <<>> ELSE state_file0)
    /\ [][pc = "finalizing" =>
             /\ pc' = "done"
             /\ state_file' = IF successful_downloads > 0 THEN <<>> ELSE state_file]_vars

(* A run that found a state file, wrote one of its own and met failures
   has returned, and the state file is gone.                               *)
C12_Witness ==
    /\ pc = "done"
    /\ state_file0 # <<>>
    /\ last_success # <<>>
    /\ failed_downloads > 0
    /\ state_file = <<>>

(* C13: a single fetch that ends in 404, in another status other than 200
   or in a transport error or timeout writes nothing: the files on disk
   are as before (no new file, no zero-byte or truncated one) and the
   state file is unchanged.                                                *)
C13_FailedFetchWritesNothing ==
    [][(gets' # gets /\ last_response' # "200") =>
          /\ disk' = disk
          /\ partial' = partial
          /\ state_file' = state_file]_vars

(* A GET met a transport error or timeout after files were written and the
   state file saved; nothing of the failed word is on disk.                *)
C13_Witness ==
    /\ last_response = "error"
    /\ last_success # <<>>
    /\ state_file = StateOf(last_success)
    /\ FileOf(last_url) \notin disk \cup partial
    /\ FileOf(last_url) \in DOMAIN outcome

(* The place of the loops after the round of <<verse_id, word_id>> that
   did not break: the next word, the next verse, or the end.               *)
RoundMovesOn ==
    IF WordMode
    THEN LET nxt == NextWord(Mapping, verse_id, word_id, FALSE,
                             start_verse, end_verse, start_word, end_word)
         IN  IF nxt = <<0, 0>> THEN pc' = "finalizing"
             ELSE pc' = "word" /\ verse_id' = nxt[1] /\ word_id' = nxt[2]
    ELSE IF verse_id < end_verse
         THEN pc' = "verse" /\ verse_id' = verse_id + 1
         ELSE pc' = "finalizing"

(* C14: an exception raised by the progress observer never aborts or
   alters the download: a round that calls the observer, whether the call
   raises or not, counts its one file and moves on to the next word or
   verse as it does with no observer; after any number of raised calls no
   exception has left the run and the counts are those of the files
   reached.                                                                *)
C14_ObserverExceptionsIgnored ==
    /\ [](callback_raised =>
             /\ pc # "raised"
             /\ successful_downloads
                   = Cardinality(Files("exists")) + Cardinality(Files("ok"))
             /\ failed_downloads = Cardinality(Files("fail")))
    /\ [][events' # events =>
             /\ error' = error
             /\ RoundMovesOn
             /\ successful_downloads' + failed_downloads'
                   = successful_downloads + failed_downloads + 1
             /\ Cardinality(DOMAIN outcome') = Cardinality(DOMAIN outcome) + 1]_vars

(* A run whose observer raised has returned after fetching some files and
   failing on others, with one observer call per file of the plan.         *)
C14_Witness ==
    /\ callback_raised
    /\ pc = "done"
    /\ successful_downloads > 0
    /\ failed_downloads > 0
    /\ events = total_files
    /\ successful_downloads + failed_downloads = total_files

(* C15: within one invocation the number of GETs in flight never exceeds
   the cap of 5: the word loop awaits the answer to each GET before it
   issues the next, so that at most one is in flight.                      *)
C15_InFlightWithinCap ==
    /\ in_flight <= CONCURRENT_DOWNLOADS
    /\ in_flight <= 1
    /\ in_flight >= 0

(* More words than the cap have been fetched in the run and one GET is in
   flight.                                                                 *)
C15_Witness ==
    /\ pc = "await"
    /\ in_flight = 1
    /\ Cardinality(DOMAIN gets) > CONCURRENT_DOWNLOADS

(* C16: two invocations for different chapters that take turns at every
   await do not interfere: the progress events of the one are those of its
   run alone, each reporting the files the invocation itself has counted
   successful so far, which are never more than its total.                 *)
C16_InvocationsDoNotInterfere ==
    last_event # <<>> =>
        /\ last_event[1] = successful_downloads
        /\ last_event[1] <= last_event[2]
        /\ last_event[2] = total_files

(* C17: after a save for a chapter and no clean-up of it since, load for
   that chapter returns the last_verse and last_word of its latest save
   (the word unset when none was given); a save for one chapter never
   changes what load returns for another: a chapter never saved, or
   cleaned up since, loads the default.                                    *)
C17_SaveLoadRoundTrip ==
    \A c \in StoreChapters :
        load_state(c) = IF c \in DOMAIN saved THEN saved[c] ELSE <<0, 0>>

(* Two chapters whose ids share a digit hold different positions, one of
   them without a word, and a third has none.                              *)
C17_Witness ==
    /\ DOMAIN saved = {LongSurah, 10 * LongSurah + ShortSurah}
    /\ saved[LongSurah][2] = None
    /\ saved[10 * LongSurah + ShortSurah][2] # None
    /\ saved[LongSurah][1] # saved[10 * LongSurah + ShortSurah][1]
    /\ load_state(LongSurah) = saved[LongSurah]
    /\ load_state(ShortSurah) = <<0, 0>>

(* start_verse as the resume block sets it from the default state
   {last_verse: 0, last_word: 0}.                                          *)
StartVerseFromDefault ==
    IF req.start_verse # None THEN req.start_verse
    ELSE IF req.resume THEN 0
    ELSE IF WordMode THEN None
    ELSE AyahRange[1]

(* C18: I/O failures of the resume state are never fatal: a state file
   that cannot be parsed loads as the default, so that the run is planned
   as with no prior state; a save that fails raises nothing, the run goes
   on, and the file just written is on disk and counted successful.        *)
C18_StateFaultsNeverFatal ==
    /\ pc = "raised" => error \in {"ValueError", "TypeError"}
    /\ (state_file0 = Corrupt /\ Planned) =>
          /\ start_verse = StartVerseFromDefault
          /\ start_word = req.start_word
          /\ total_files = IF WordMode THEN ChapterWords
                            ELSE end_verse - StartVerseFromDefault + 1
    /\ last_save \in {"failed_open", "failed_write"} =>
          /\ pc \in {"word", "verse", "finalizing", "done"}
          /\ last_success \in disk
          /\ last_success \in DOMAIN outcome
          /\ outcome[last_success] = "ok"
          /\ successful_downloads
                = Cardinality(Files("exists")) + Cardinality(Files("ok"))

(* A resumed run that found an unparsable state file has returned; its
   latest save failed, files were fetched and others failed.               *)
C18_Witness ==
    /\ req.resume
    /\ state_file0 = Corrupt
    /\ pc = "done"
    /\ last_save = "failed_open"
    /\ successful_downloads >= 2
    /\ failed_downloads >= 1

(* C19: when the reference data file is absent or malformed, the load
   raises no error and the construction of the orchestrator succeeds (with
   an empty catalog); a request made afterwards fails with chapter not
   found.                                                                  *)
C19_MissingCatalogIsEmpty ==
    data_file # "present" =>
        /\ pc # "no_object"
        /\ pc \in {"new", "init", "raised"}
        /\ pc = "raised" => error = "ValueError"

(* <<verse, word>> order; the word of a verse-mode position is None. *)
Before(a, b) == a[1] < b[1] \/ (a[1] = b[1] /\ a[2] < b[2])

(* C20: within one run the positions written to the state file are
   strictly increasing in (verse, word) order; when <<v, w>> is the
   position persisted, every earlier word of verse v inside the range of
   the run has been accounted for (present, fetched or failed); and the
   loops go through verses and words in ascending order.                   *)
C20_PersistedPositionsIncrease ==
    /\ [](( /\ pc \in {"word", "finalizing"}
            /\ WordMode
            /\ last_success # <<>> ) =>
             /\ state_file = last_success
             /\ \A u \in FirstWord(state_file[1])..(state_file[2] - 1) :
                    <<state_file[1], u>> \in DOMAIN outcome)
    /\ [][(last_success # <<>> /\ last_success' # last_success) =>
             Before(state_file, state_file')]_vars
    /\ [][(pc \in {"word", "verse"} /\ pc' = pc) =>
             \/ <<verse_id', word_id'>> = <<verse_id, word_id>>
             \/ Before(<<verse_id, word_id>>, <<verse_id', word_id'>>)]_vars

(* The state file names word 2 of a later verse, written after word 1 of
   that verse had failed and a word of the verse before had been fetched.  *)
C20_Witness ==
    /\ pc = "word"
    /\ last_success # <<>>
    /\ state_file = last_success
    /\ state_file[1] >= 2
    /\ state_file[2] = 2
    /\ <<state_file[1], 1>> \in DOMAIN outcome
    /\ outcome[<<state_file[1], 1>>] = "fail"
    /\ <<state_file[1] - 1, 1>> \in DOMAIN outcome
    /\ outcome[<<state_file[1] - 1, 1>>] = "ok"

(* C21: at the end of a word-by-word run that processed at least one word
   the state file is removed when no word failed, and a run that ends with
   failed words, and had a state file to keep (the one it found or one it
   wrote), still has one.                                                  *)
C21_StateKeptWhenFailed ==
    (/\ pc = "done"
     /\ WordMode
     /\ successful_downloads + failed_downloads > 0
     /\ (state_file0 # <<>> \/ last_success # <<>>))
        => (state_file = <<>>) = (failed_downloads = 0)

(* C22: in the per-word loop every processed word has produced exactly one
   progress event: the number of events the observer has received is the
   number of words processed so far, the word that brings the failures in
   a row to five included.                                                 *)
C22_OneEventPerWord ==
    (WordMode /\ Planned) => events = Cardinality(DOMAIN outcome)

(***************************************************************************)
(* The percentage of a progress event.                                     *)
(***************************************************************************)

(* get_download_progress(current, total): 0.0 when total is 0, else
   current / total * 100, kept exact as <<numerator, denominator>>.        *)
get_download_progress(current, total) ==
    IF total = 0 THEN <<0, 1>> ELSE <<current * 100, total>>

(* low <= q <= high for a fraction q with a denominator of either sign. *)
FractionBetween(q, low, high) ==
    IF q[2] > 0
    THEN low * q[2] <= q[1] /\ q[1] <= high * q[2]
    ELSE low * q[2] >= q[1] /\ q[1] >= high * q[2]

(* The percentage the observer is given with the latest event. *)
EventPercent == get_download_progress(last_event[1], last_event[2])

(* C23: every progress event has 0 <= percent <= 100 and 0 <= completed
   <= total, its total is the total_files of the run, its percent is 0
   when the total is 0, and from one event of the run to the next completed
   never decreases.                                                        *)
C23_ProgressEventBounds ==
    /\ [](last_event # <<>> =>
             /\ FractionBetween(EventPercent, 0, 100)
             /\ 0 <= last_event[1]
             /\ last_event[1] <= last_event[2]
             /\ last_event[2] = total_files
             /\ (last_event[2] = 0 => EventPercent[1] = 0))
    /\ [][(last_event # <<>> /\ last_event' # <<>>) =>
             last_event'[1] >= last_event[1]]_vars

(***************************************************************************)
(* Runs in which every request of the fetch layer returns: the download    *)
(* function is one coroutine that is resumed after each await, so a step   *)
(* that can be taken is eventually taken.                                  *)
(***************************************************************************)
SpecFair == Init /\ [][Next]_vars /\ WF_vars(Next)

(* The place of a position of the run in the order of the state machine. *)
PhaseRank(p) ==
    CASE p = "init" -> 0
      [] p \in {"word", "verse"} -> 1
      [] p = "finalizing" -> 2
      [] p = "done" -> 3
      [] OTHER -> 4

(* C24: a run for a chapter of the catalog goes through Init, Planning,
   the loops and Finalizing in that order and eventually reaches Done when
   every request returns; each word of the range is visited at most once,
   each visit makes at most max_retries attempts, and nothing happens
   after Done.                                                             *)
C24_RunReachesDone ==
    /\ [][(PhaseRank(pc) < 4 /\ PhaseRank(pc') < 4) =>
             PhaseRank(pc') >= PhaseRank(pc)]_vars
    /\ [][pc # "done"]_vars
    /\ [](Planned =>
             /\ successful_downloads + failed_downloads
                    = Cardinality(DOMAIN outcome)
             /\ \A f \in DOMAIN gets : gets[f] <= max_retries)
    /\ (pc = "init" /\ SurahFound(req.surah_id)) ~> (pc = "done")

(***************************************************************************)
(* A second run in the same download directory.                            *)
(***************************************************************************)

(* self.download_state of a new QuranAudioDownloader. *)
initial_download_state ==
    [total_files |-> 0, completed_files |-> 0, failed_files |-> 0,
     failed_downloads |-> None]

(* download_surah_enhanced_async is called for the request r with the
   files the run before has left; ds is the download_state of the object
   it is called on. The result of the run before is kept in prev.          *)
NewRun(r, ds, how) ==
    /\ pc' = "init"
    /\ req' = r
    /\ error' = ""
    /\ prev' = [how |-> how, req |-> req, state_file0 |-> state_file0,
                total_files |-> total_files,
                successful_downloads |-> successful_downloads,
                failed_downloads |-> failed_downloads]
    /\ disk0' = disk
    /\ state_file0' = state_file
    /\ start_verse' = None
    /\ end_verse' = None
    /\ start_word' = None
    /\ end_word' = None
    /\ total_files' = 0
    /\ successful_downloads' = 0
    /\ failed_downloads' = 0
    /\ verse_id' = 0
    /\ word_id' = 0
    /\ consecutive_404s' = 0
    /\ attempt' = 0
    /\ gets' = <<>>
    /\ outcome' = <<>>
    /\ last_response' = ""
    /\ last_url' = <<>>
    /\ last_success' = <<>>
    /\ download_state' = ds
    /\ events' = 0
    /\ last_event' = <<>>
    /\ callback_raised' = FALSE
    /\ last_save' = ""
    /\ total_size' = 0
    /\ UNCHANGED <<disk, state_file, partial, progress_callback, in_flight,
                   other, store, saved, io_faults, data_file>>

(* The process is stopped while the run waits for an answer, and the same
   request is started again by a new process, on a new object.             *)
Interrupt ==
    /\ pc \in {"word", "verse"}
    /\ prev = <<>>
    /\ NewRun(req, initial_download_state, "interrupted")

(* Whole-chapter word-by-word requests with resume on the short chapter,
   whose verses are too short for the loop to leave one early.             *)
ResumeRequests ==
    { r \in ObserverRequests : /\ r.surah_id = ShortSurah
                               /\ r.download_type = "word_by_word"
                               /\ r.resume }

(* The first run starts in an empty download directory. *)
InitResume ==
    /\ Start(ResumeRequests, {"none"}, {NoOther}, {FALSE})
    /\ disk = {}
    /\ state_file = <<>>

NextResume ==
    \/ CallWord
    \/ WordExists
    \/ WordFetch
    \/ Finalize
    \/ Interrupt

SpecResume == InitResume /\ [][NextResume]_vars

(* The words the run plans for the chapter: word 1..n of every verse of
   the mapping.                                                            *)
MappedWords ==
    { f \in (DOMAIN Mapping) \X (1..WordsLong) : f[2] <= Mapping[f[1]] }

(* C25: a run that resumes an interrupted one with resume on and no range
   attempts every word of the chapter whose file was not on disk when it
   started, the words before the persisted position included.              *)
C25_ResumeNeverSkipsMissing ==
    (pc = "done" /\ prev # <<>>) =>
        \A f \in MappedWords : f \notin disk0 => f \in DOMAIN outcome

(* C26: with resume on, an explicit verse range and no word range, a state
   file of the chapter does not change which words are processed: the
   ranges the loops run over are the ones the run has without a state
   file, the caller's verses and no word bound (the persisted last_word is
   not made the start word of the caller's start verse).                   *)
C26_ExplicitRangeIgnoresState ==
    ( /\ pc # "init"
      /\ SurahFound(req.surah_id)
      /\ WordMode
      /\ req.resume
      /\ req.start_verse # None
      /\ req.end_verse # None
      /\ WordRangeUnset ) =>
        /\ start_verse = req.start_verse
        /\ end_verse = req.end_verse
        /\ start_word = None
        /\ end_word = None

(* C27: whatever the resume flag, a file that is on disk when the run
   starts is never written and, when it is a file of the run's mode, never
   requested: it stays on disk whole, its word is counted as present when
   the loops reach it, and every GET is for a file that is not on disk
   when it is issued.                                                      *)
C27_PresentFileNeverRefetched ==
    /\ [](\A f \in disk0 :
             /\ f \in disk
             /\ f \notin partial
             /\ (FileOf(UrlOf(f)) = f => UrlOf(f) \notin DOMAIN gets)
             /\ (f \in DOMAIN outcome => outcome[f] = "exists"))
    /\ [][gets' # gets => FileOf(last_url') \notin disk]_vars

(* A run with resume off has returned: it counted the files it found as
   present and fetched others.                                             *)
C27_Witness ==
    /\ ~req.resume
    /\ pc = "done"
    /\ disk0 # {}
    /\ \A f \in disk0 : f \in DOMAIN outcome /\ outcome[f] = "exists"
    /\ Files("ok") # {}
    /\ gets # <<>>

(***************************************************************************)
(* Two runs one after the other on one object.                             *)
(***************************************************************************)

(* The other download type. *)
OtherType(type) ==
    IF type = "word_by_word" THEN "verse_by_verse" ELSE "word_by_word"

(* What is asked next: the same request with resume on, or the whole
   chapter in the other mode.                                              *)
NextRequests ==
    { [req EXCEPT !.resume = TRUE],
      Request(req.surah_id, OtherType(req.download_type), <<None, None>>,
              <<None, None>>, req.resume) }

(* The run has returned and download_surah_enhanced_async is called again
   on the same object, whose download_state is as the run left it.         *)
RunAgain ==
    /\ pc = "done"
    /\ prev = <<>>
    /\ \E r \in NextRequests : NewRun(r, download_state, "done")

(* The first run is for the whole short chapter, in either mode. *)
AgainRequests == { r \in ObserverRequests : r.surah_id = ShortSurah }

InitAgain == Start(AgainRequests, {"none"}, {NoOther}, {FALSE})

NextAgain ==
    \/ CallWord
    \/ WordExists
    \/ WordFetch
    \/ CallVerse
    \/ VerseExists
    \/ VerseFetch
    \/ Finalize
    \/ RunAgain

SpecAgain == InitAgain /\ [][NextAgain]_vars

(* The run before returned with every file of its range counted
   successful, had not taken its start from a state file, and this run is
   for the same request with resume on.                                    *)
RerunOfCompleteRun ==
    /\ prev # <<>>
    /\ prev.how = "done"
    /\ prev.state_file0 = <<>>
    /\ prev.failed_downloads = 0
    /\ prev.successful_downloads = prev.total_files
    /\ req = [prev.req EXCEPT !.resume = TRUE]

(* C28: the run that follows a run in which every file was counted
   successful, for the same request with resume on, issues no GET and
   changes no file, and returns the same total_files with successful =
   total_files and failed = 0.                                             *)
C28_RerunIsIdempotent ==
    RerunOfCompleteRun =>
        /\ gets = <<>>
        /\ disk = disk0
        /\ (pc = "done" =>
               /\ total_files = prev.total_files
               /\ successful_downloads = total_files
               /\ failed_downloads = 0)

(***************************************************************************)
(* Runs against a remote that may answer 200 with an empty body.           *)
(***************************************************************************)

(* One GET of _download_word_with_retry, the empty body among its possible
   answers, and what follows.                                              *)
WordFetchAny ==
    /\ pc = "word"
    /\ ~check_file_exists(<<verse_id, word_id>>)
    /\ WordAnsweredFrom(AnyResponses)
    /\ UNCHANGED in_flight

(* Whole-chapter word-by-word requests for the short chapter. *)
EmptyBodyRequests ==
    { r \in AgainRequests : r.download_type = "word_by_word" }

InitEmptyBody == Start(EmptyBodyRequests, {"none"}, {NoOther}, {FALSE})

NextEmptyBody ==
    \/ CallWord
    \/ WordExists
    \/ WordFetchAny
    \/ Finalize

SpecEmptyBody == InitEmptyBody /\ [][NextEmptyBody]_vars

(* The files the run has counted successful: found on disk or fetched. *)
CountedSuccessful == Files("exists") \cup Files("ok")

(* C29: when the run has returned, every file it counted successful is on
   disk and non-empty, so that a later run finds it, and total_size is the
   sum of the sizes of those files, also when a 200 answer had an empty
   body.                                                                   *)
C29_SuccessfulFilesNonEmpty ==
    pc = "done" =>
        /\ \A f \in CountedSuccessful : check_file_exists(f)
        /\ total_size = Cardinality({ f \in CountedSuccessful : getsize(f) > 0 })

(* C30: through any sequence of runs on one object the live counters keep
   completed_files + failed_files <= total_files, and every run starts
   with both counters reset to 0.                                          *)
C30_LiveCountersWithinTotal ==
    /\ [](download_state.completed_files + download_state.failed_files
              <= download_state.total_files)
    /\ [][(pc = "init" /\ pc' \in {"word", "verse", "finalizing"}) =>
             /\ download_state'.completed_files = 0
             /\ download_state'.failed_files = 0]_vars

====
